---------------------------- MODULE Spec2Model ----------------------------
(***************************************************************************)
(* Model of the incremental synchronisation engine of CMSHospitalETL      *)
(* (src/cms_hospital_etl.py): the change detector needs_update, the item  *)
(* processor process_dataset, the metadata table file_metadata and the    *)
(* batch coordinator run() with its pool of max_workers threads.          *)
(*                                                                         *)
(* Abstractions.  A dataset identifier is a number.  The table a CSV file *)
(* holds is not modelled, only whether the file exists.  Strings that are *)
(* compared (the catalog's "modified" value, the processing date) are     *)
(* sequences of digits, compared as Python compares str values.           *)
(***************************************************************************)
EXTENDS Integers, Sequences, FiniteSets, TLC

\* ------------------------------------------------------------ bounds
NumIds == 2        \* identifiers the remote catalog draws from
MaxItems == 2      \* longest catalog listing of the general specification
MaxTime == 2       \* catalog "modified" values are Stamp(1) .. Stamp(MaxTime)
MaxDay == 2        \* the processing date runs over Stamp(1) .. Stamp(MaxDay)
MaxRuns == 2       \* number of run() calls in a behaviour
MaxStamp == 12     \* stamps the change-detector specification draws from
PoolExtra == 1     \* items of the pool specification beyond max_workers

\* ------------------------------------------------------------ constants
max_workers == 5   \* ThreadPoolExecutor(max_workers=5)

VARIABLES
    rawFiles,        \* identifiers with a file data/raw/<id>.csv
    processedFiles,  \* identifiers with a file data/processed/<id>.csv
    store,           \* rows of table file_metadata
    today,           \* the day datetime.now() falls on
    pc,              \* where run() is
    runNo,           \* number of run() calls started
    existing,        \* result of check_existing_data() in this run
    datasets,        \* result of fetch_hospital_datasets() in this run
    worklist,        \* datasets_to_process of this run
    pos,             \* pos[i]: where process_dataset(worklist[i]) is
    fault,           \* fault[i]: the step of call i that raised, or "none"
    upserted,        \* work-list indices of this run whose call wrote a row
    attempts,        \* attempts[i]: times item i was handed to a worker
    materialized,    \* ids some call has written both files of
    readFailed,      \* some store lookup of this run's needs_update failed
    sameCatalog,     \* the run before this one returned, and this run's
                     \* listing equals its listing
    cleanBefore,     \* last was "clean" when this run fetched its listing
    emptyAtStart,    \* the store held no row when this run started
    last,            \* how the last run ended: "none" (there was none),
                     \* "killed", "raised", "failed" (it returned, some call
                     \* failed), "clean" (it returned, every call was done
                     \* or skipped), or "deleted" (it returned and a raw
                     \* file was deleted since)
    verdict,         \* last result of a needs_update call made on its own
    response,        \* what requests.get gave this run: "ok", "bad_status"
                     \* or "transport_error"; "none" before the request
    why              \* why[i]: what sent call i down the download path,
                     \* "compared" or "unconditional"; "none" before the
                     \* call starts and after it ends

vars == <<rawFiles, processedFiles, store, today, pc, runNo, existing,
          datasets, worklist, pos, fault, upserted, attempts, materialized,
          readFailed, sameCatalog, cleanBefore,
                   emptyAtStart, last, verdict, response, why>>

\* ------------------------------------------------------------ strings
\* A fixed-width, zero-padded rendering of a number: the sortable date
\* format of the catalog ("2024-03-01") and of strftime('%Y-%m-%d').
Stamp(n) == <<(n \div 10) % 10, n % 10>>

\* The number a stamp renders.
StampValue(s) == 10 * s[1] + s[2]

StrGreaterEqMutant(a, b) == a = b \/
    \E k \in 1..Len(a) :
        /\ k <= Len(b)
        /\ \A j \in 1..(k - 1) : a[j] = b[j]
        /\ a[k] > b[k]

\* Python's a > b on str: at the first position where they differ the
\* character of a is the greater, or b is a proper prefix of a.
StrGreater(a, b) ==
    \/ \E k \in 1..Len(a) :
          /\ k <= Len(b)
          /\ \A j \in 1..(k - 1) : a[j] = b[j]
          /\ a[k] > b[k]
    \/ /\ Len(a) > Len(b)
       /\ \A j \in 1..Len(b) : a[j] = b[j]

\* ------------------------------------------------------------ data
Ids == 1..NumIds
Times == {Stamp(n) : n \in 1..MaxTime}

\* f"{dataset['identifier']}.csv"
Filename(id) == <<id, ".csv">>

\* A catalog entry as the remote listing gives it; hospital is the value of
\* the keyword predicate on its theme tags and title.
Dataset(id, m, h) == [identifier |-> id, modified |-> m, hospital |-> h]

\* The identifier of an entry that has no 'identifier' key.
NoIdentifier == 0

\* Entries of the remote listing: well-formed ones, and entries without an
\* 'identifier' key.
Datasets ==
    {Dataset(id, m, h) : id \in Ids, m \in Times, h \in BOOLEAN}
        \cup {Dataset(NoIdentifier, Stamp(1), h) : h \in BOOLEAN}

\* Listings of at most n entries.
Listings(n) == UNION {[1..k -> Datasets] : k \in 0..n}

\* What requests.get(self.cms_api_url) can give: a listing with status 200,
\* another status (whatever its body), or a transport error (an exception).
Responses(n) ==
    {[kind |-> k, body |-> b] : k \in {"ok", "bad_status"}, b \in Listings(n)}
        \cup {[kind |-> "transport_error", body |-> <<>>]}

\* A row of file_metadata.
Row(id, fn, m, p) ==
    [file_id |-> id, filename |-> fn, last_modified |-> m, last_processed |-> p]

\* datetime.now().strftime('%Y-%m-%d')
Now == Stamp(today)

\* ------------------------------------------------------------ the store
InsertOnlyMutant(rows, row) == rows \cup {row}

InsertClobberMutant(rows, row) == {row}

\* INSERT OR REPLACE on a table whose file_id is the PRIMARY KEY: the row
\* with the same key, if any, is deleted and the new row inserted, in one
\* transaction.
InsertOrReplace(rows, row) ==
    {r \in rows : r.file_id # row.file_id} \cup {row}

\* SELECT last_modified FROM file_metadata WHERE file_id = ? ... fetchone()
FetchOne(id) ==
    LET result == {r \in store : r.file_id = id}
    IN  IF result = {} THEN <<>> ELSE <<(CHOOSE r \in result : TRUE).last_modified>>

HasRecord(id) == \E r \in store : r.file_id = id

\* ------------------------------------------------------------ needs_update
NeedsUpdateNoRawCheckMutant(d, readErr) ==
    IF readErr THEN TRUE
    ELSE IF FetchOne(d.identifier) = <<>> THEN TRUE
    ELSE StrGreater(d.modified, FetchOne(d.identifier)[1])

NeedsUpdateGeMutant(d, readErr) ==
    IF d.identifier \notin rawFiles THEN TRUE
    ELSE IF readErr THEN TRUE
    ELSE IF FetchOne(d.identifier) = <<>> THEN TRUE
    ELSE StrGreaterEqMutant(d.modified, FetchOne(d.identifier)[1])

NeedsUpdateNoRecordMutant(d, readErr) ==
    IF d.identifier \notin rawFiles THEN TRUE
    ELSE IF readErr THEN TRUE
    ELSE IF FetchOne(d.identifier) = <<>> THEN FALSE
    ELSE StrGreater(d.modified, FetchOne(d.identifier)[1])

NeedsUpdateReversedMutant(d, readErr) ==
    IF d.identifier \notin rawFiles THEN TRUE
    ELSE IF readErr THEN TRUE
    ELSE IF FetchOne(d.identifier) = <<>> THEN TRUE
    ELSE StrGreater(FetchOne(d.identifier)[1], d.modified)

NeedsUpdateErrFalseMutant(d, readErr) ==
    IF d.identifier \notin rawFiles THEN TRUE
    ELSE IF readErr THEN FALSE
    ELSE IF FetchOne(d.identifier) = <<>> THEN TRUE
    ELSE StrGreater(d.modified, FetchOne(d.identifier)[1])

\* needs_update(dataset); readErr says that the store lookup raises.
NeedsUpdate(d, readErr) ==
    IF d.identifier \notin rawFiles THEN TRUE
    ELSE IF readErr THEN TRUE
    ELSE IF FetchOne(d.identifier) = <<>> THEN TRUE
    ELSE StrGreater(d.modified, FetchOne(d.identifier)[1])

\* ------------------------------------------------------------ helpers
RECURSIVE Keep(_, _, _)
\* The entries of ds at the indices in S that are >= i, in order.
Keep(ds, S, i) ==
    IF i > Len(ds) THEN <<>>
    ELSE IF i \in S THEN <<ds[i]>> \o Keep(ds, S, i + 1)
    ELSE Keep(ds, S, i + 1)

\* The hospital filter of fetch_hospital_datasets.
HospitalDatasets(body) ==
    Keep(body, {i \in 1..Len(body) : body[i].hospital}, 1)

FetchResultNoStatusCheckMutant(resp) == HospitalDatasets(resp.body)

\* fetch_hospital_datasets(): [] on a bad status or an exception.
FetchResult(resp) ==
    IF resp.kind = "ok" THEN HospitalDatasets(resp.body) ELSE <<>>

\* [d for d in datasets if self.needs_update(d)]; errs are the indices whose
\* store lookup raises.
ToProcess(ds, errs) ==
    Keep(ds, {i \in 1..Len(ds) : NeedsUpdate(ds[i], i \in errs)}, 1)

\* dataset['identifier'] at line 102, outside needs_update's try, raises
\* KeyError on an entry without the key: the list comprehension of line 163
\* raises.
FilterRaises(ds) == \E i \in 1..Len(ds) : ds[i].identifier = NoIdentifier

OnRunExceptionMutant == "returned"

\* except Exception in run() (lines 180-182): log and raise.
OnRunException == "raised"

\* What decides line 57 for d: the comparison of line 112 with the row's
\* last_modified ("compared"), or one of the tests before it, which send
\* the call down the download path whatever the dataset's modified value
\* is: the raw file is missing, the lookup raises, or there is no row.
Why(d, readErr) ==
    IF d.identifier \notin rawFiles THEN "unconditional"
    ELSE IF readErr THEN "unconditional"
    ELSE IF FetchOne(d.identifier) = <<>> THEN "unconditional"
    ELSE "compared"

\* check_existing_data(); err says that the store query or strptime raises.
CheckExistingData(err) ==
    IF rawFiles = {} \/ processedFiles = {} THEN FALSE
    ELSE IF err THEN FALSE
    ELSE store # {}

Active == {"download", "fetched", "raw_written", "processed_written"}
Terminal == {"done", "skipped", "failed", "propagated"}

Items == 1..Len(worklist)
InFlight == {i \in Items : pos[i] \in Active}
AllTerminal == \A i \in Items : pos[i] \in Terminal

WorkerFreeMutant == TRUE

\* The worker threads: an item leaves the queue only for a free worker.
WorkerFree == Cardinality(InFlight) < max_workers

PoolJoinedMutant == \A i \in Items : pos[i] # "queued"

\* Leaving the "with ThreadPoolExecutor" block and the list() around
\* executor.map: every call has ended.
PoolJoined == AllTerminal

OnExceptionMutant == "propagated"

\* except Exception in process_dataset: the error is logged, the call ends.
OnException == "failed"

InitDbDropMutant(rows) == {}

\* CREATE TABLE IF NOT EXISTS in _init_db: an existing table is left alone.
InitDb(rows) == rows

RowOfMergeMutant(d) ==
    LET old == {r \in store : r.file_id = d.identifier}
    IN  Row(d.identifier, Filename(d.identifier), d.modified,
            IF old = {} THEN Now ELSE (CHOOSE r \in old : TRUE).last_processed)

\* The row process_dataset writes for a dataset.
RowOf(d) == Row(d.identifier, Filename(d.identifier), d.modified, Now)

\* "if not raw_path.exists() or self.needs_update(dataset)"
TakesDownloadPath(d, readErr) ==
    d.identifier \notin rawFiles \/ NeedsUpdate(d, readErr)

\* ------------------------------------------------------------ initial state
\* A fresh installation: the directories and the table exist and are empty.
Init ==
    /\ rawFiles = {}
    /\ processedFiles = {}
    /\ store = {}
    /\ today = 1
    /\ pc = "idle"
    /\ runNo = 0
    /\ existing = FALSE
    /\ datasets = <<>>
    /\ worklist = <<>>
    /\ pos = <<>>
    /\ fault = <<>>
    /\ upserted = {}
    /\ attempts = <<>>
    /\ materialized = {}
    /\ readFailed = FALSE
    /\ sameCatalog = FALSE
    /\ cleanBefore = FALSE
    /\ emptyAtStart = FALSE
    /\ last = "none"
    /\ verdict = <<>>
    /\ response = "none"
    /\ why = <<>>

\* ------------------------------------------------------------ run()
\* The scheduler's job constructs CMSHospitalETL (which runs _init_db) and
\* calls run(), which first calls check_existing_data() for its log line.
RunStart(err) ==
    /\ pc = "idle"
    /\ runNo < MaxRuns
    /\ runNo' = runNo + 1
    /\ store' = InitDb(store)
    /\ existing' = CheckExistingData(err)
    /\ emptyAtStart' = (store = {})
    /\ pc' = "started"
    /\ UNCHANGED <<rawFiles, processedFiles, today, datasets, worklist, pos,
                   fault, upserted, attempts, materialized, readFailed,
                   sameCatalog, cleanBefore, last, verdict, response, why>>

\* datasets = self.fetch_hospital_datasets()
FetchHospitalDatasets(resp) ==
    /\ pc = "started"
    /\ datasets' = FetchResult(resp)
    /\ sameCatalog' = (last \in {"clean", "failed", "deleted"} /\ datasets' = datasets)
    /\ cleanBefore' = (last = "clean")
    /\ existing' = FALSE    \* it served the log line of lines 157-160 only
    /\ pc' = "fetched"
    /\ response' = resp.kind
    /\ UNCHANGED <<rawFiles, processedFiles, store, today, runNo,
                   worklist, pos, fault, upserted, attempts, materialized,
                   readFailed, emptyAtStart, last, verdict, why>>

\* datasets_to_process = [...]; an empty list ends the run, and a
\* needs_update call that raises ends it in run()'s except.
FilterDatasets(errs) ==
    /\ pc = "fetched"
    /\ worklist' = IF FilterRaises(datasets) THEN <<>>
                   ELSE ToProcess(datasets, errs)
    /\ pos' = [i \in 1..Len(worklist') |-> "queued"]
    /\ fault' = [i \in 1..Len(worklist') |-> "none"]
    /\ attempts' = [i \in 1..Len(worklist') |-> 0]
    /\ why' = [i \in 1..Len(worklist') |-> "none"]
    /\ readFailed' = \E i \in errs : datasets[i].identifier \in rawFiles
    /\ pc' = IF FilterRaises(datasets) THEN OnRunException
             ELSE IF worklist' = <<>> THEN "returned" ELSE "dispatching"
    /\ last' = IF FilterRaises(datasets) THEN "raised"
               ELSE IF worklist' = <<>> THEN "clean" ELSE last
    /\ UNCHANGED <<rawFiles, processedFiles, store, today, runNo, existing,
                   datasets, upserted, materialized, sameCatalog, cleanBefore,
                   emptyAtStart, verdict, response>>

StartTouchMutant(i, readErr) ==
    /\ pc = "dispatching"
    /\ i \in Items
    /\ pos[i] = "queued"
    /\ \A j \in 1..(i - 1) : pos[j] # "queued"
    /\ WorkerFree
    /\ rawFiles' = rawFiles \cup {worklist[i].identifier}
    /\ pos' = [pos EXCEPT ![i] =
                  IF TakesDownloadPath(worklist[i], readErr)
                  THEN "download" ELSE "skipped"]
    /\ attempts' = [attempts EXCEPT ![i] = @ + 1]
    /\ why' = [why EXCEPT ![i] = IF pos'[i] = "download"
                                   THEN Why(worklist[i], readErr) ELSE "none"]
    /\ UNCHANGED <<processedFiles, store, today, pc, runNo, existing,
                   datasets, worklist, fault, upserted, materialized,
                   readFailed, sameCatalog, cleanBefore,
                   emptyAtStart, last, verdict, response>>

\* A worker takes the next queued item and evaluates line 57.
Start(i, readErr) ==
    /\ pc = "dispatching"
    /\ i \in Items
    /\ pos[i] = "queued"
    /\ \A j \in 1..(i - 1) : pos[j] # "queued"
    /\ WorkerFree
    /\ pos' = [pos EXCEPT ![i] =
                  IF TakesDownloadPath(worklist[i], readErr)
                  THEN "download" ELSE "skipped"]
    /\ attempts' = [attempts EXCEPT ![i] = @ + 1]
    /\ why' = [why EXCEPT ![i] = IF pos'[i] = "download"
                                   THEN Why(worklist[i], readErr) ELSE "none"]
    /\ UNCHANGED <<rawFiles, processedFiles, store, today, pc, runNo, existing,
                   datasets, worklist, fault, upserted, materialized,
                   readFailed, sameCatalog, cleanBefore,
                   emptyAtStart, last, verdict, response>>

\* df = pd.read_csv(download_url)
ReadCsv(i, ok) ==
    /\ pc = "dispatching"
    /\ i \in Items
    /\ pos[i] = "download"
    /\ pos' = [pos EXCEPT ![i] = IF ok THEN "fetched" ELSE OnException]
    /\ fault' = [fault EXCEPT ![i] = IF ok THEN @ ELSE "fetch"]
    /\ why' = [why EXCEPT ![i] = IF pos'[i] \in Terminal THEN "none" ELSE @]
    /\ UNCHANGED <<rawFiles, processedFiles, store, today, pc, runNo, existing,
                   datasets, worklist, upserted, attempts, materialized,
                   readFailed, sameCatalog, cleanBefore,
                   emptyAtStart, last, verdict, response>>

\* df.to_csv(raw_path); a write that raises may have created the file
\* ("partial") or not ("error").
WriteRaw(i, out) ==
    /\ pc = "dispatching"
    /\ i \in Items
    /\ pos[i] = "fetched"
    /\ rawFiles' = IF out = "error" THEN rawFiles
                   ELSE rawFiles \cup {worklist[i].identifier}
    /\ pos' = [pos EXCEPT ![i] = IF out = "ok" THEN "raw_written" ELSE OnException]
    /\ fault' = [fault EXCEPT ![i] = IF out = "ok" THEN @ ELSE "raw"]
    /\ why' = [why EXCEPT ![i] = IF pos'[i] \in Terminal THEN "none" ELSE @]
    /\ UNCHANGED <<processedFiles, store, today, pc, runNo, existing,
                   datasets, worklist, upserted, attempts, materialized,
                   readFailed, sameCatalog, cleanBefore,
                   emptyAtStart, last, verdict, response>>

\* df.columns = [...]; df.to_csv(processed_path)
WriteProcessed(i, out) ==
    /\ pc = "dispatching"
    /\ i \in Items
    /\ pos[i] = "raw_written"
    /\ processedFiles' = IF out = "error" THEN processedFiles
                         ELSE processedFiles \cup {worklist[i].identifier}
    /\ materialized' = IF out = "ok"
                       THEN materialized \cup {worklist[i].identifier}
                       ELSE materialized
    /\ pos' = [pos EXCEPT ![i] =
                  IF out = "ok" THEN "processed_written" ELSE OnException]
    /\ fault' = [fault EXCEPT ![i] = IF out = "ok" THEN @ ELSE "processed"]
    /\ why' = [why EXCEPT ![i] = IF pos'[i] \in Terminal THEN "none" ELSE @]
    /\ UNCHANGED <<rawFiles, store, today, pc, runNo, existing,
                   datasets, worklist, upserted, attempts,
                   readFailed, sameCatalog, cleanBefore,
                   emptyAtStart, last, verdict, response>>

UpsertEarlyMutant(i, ok) ==
    /\ pc = "dispatching"
    /\ i \in Items
    /\ pos[i] = "fetched"
    /\ store' = IF ok THEN InsertOrReplace(store, RowOf(worklist[i])) ELSE store
    /\ upserted' = IF ok THEN upserted \cup {i} ELSE upserted
    /\ pos' = [pos EXCEPT ![i] = IF ok THEN "done" ELSE OnException]
    /\ fault' = [fault EXCEPT ![i] = IF ok THEN @ ELSE "store"]
    /\ why' = [why EXCEPT ![i] = IF pos'[i] \in Terminal THEN "none" ELSE @]
    /\ UNCHANGED <<rawFiles, processedFiles, today, pc, runNo, existing,
                   datasets, worklist, attempts, materialized,
                   readFailed, sameCatalog, cleanBefore,
                   emptyAtStart, last, verdict, response>>

\* The INSERT OR REPLACE transaction, committed when the "with" block ends.
Upsert(i, ok) ==
    /\ pc = "dispatching"
    /\ i \in Items
    /\ pos[i] = "processed_written"
    /\ store' = IF ok THEN InsertOrReplace(store, RowOf(worklist[i])) ELSE store
    /\ upserted' = IF ok THEN upserted \cup {i} ELSE upserted
    /\ pos' = [pos EXCEPT ![i] = IF ok THEN "done" ELSE OnException]
    /\ fault' = [fault EXCEPT ![i] = IF ok THEN @ ELSE "store"]
    /\ why' = [why EXCEPT ![i] = IF pos'[i] \in Terminal THEN "none" ELSE @]
    /\ UNCHANGED <<rawFiles, processedFiles, today, pc, runNo, existing,
                   datasets, worklist, attempts, materialized,
                   readFailed, sameCatalog, cleanBefore,
                   emptyAtStart, last, verdict, response>>

\* The pool is joined and run() ends: it returns, or re-raises what a call
\* let through.
RunReturn ==
    /\ pc = "dispatching"
    /\ PoolJoined
    /\ pc' = IF \E i \in Items : pos[i] = "propagated" THEN "raised" ELSE "returned"
    /\ last' = IF \E i \in Items : pos[i] = "propagated" THEN "raised"
               ELSE IF \A i \in Items : pos[i] \in {"done", "skipped"} THEN "clean"
               ELSE "failed"
    /\ UNCHANGED <<rawFiles, processedFiles, store, today, runNo, existing,
                   datasets, worklist, pos, fault, upserted, attempts,
                   materialized, readFailed, sameCatalog, cleanBefore,
                   emptyAtStart, verdict, response, why>>

\* run_job() ends and the scheduler sleeps until the next run: the
\* CMSHospitalETL object and what run() held are gone.  (The datasets of a
\* run that returned are kept for the comparison of the next listing with
\* this one.)
Sleep ==
    /\ pc \in {"returned", "raised"}
    /\ pc' = "idle"
    /\ worklist' = <<>>
    /\ pos' = <<>>
    /\ fault' = <<>>
    /\ attempts' = <<>>
    /\ upserted' = {}
    /\ readFailed' = FALSE
    /\ sameCatalog' = FALSE
    /\ cleanBefore' = FALSE
    /\ emptyAtStart' = FALSE
    /\ existing' = FALSE
    /\ response' = "none"
    /\ why' = <<>>
    /\ datasets' = IF pc = "raised" THEN <<>> ELSE datasets
    /\ UNCHANGED <<rawFiles, processedFiles, store, today, runNo,
                   materialized, last, verdict>>

\* ------------------------------------------------------------ environment
\* The process is killed while run() is under way and started again later;
\* the calls in flight are abandoned where they are.
Kill ==
    /\ pc \in {"started", "fetched", "dispatching"}
    /\ pc' = "idle"
    /\ worklist' = <<>>
    /\ pos' = <<>>
    /\ fault' = <<>>
    /\ attempts' = <<>>
    /\ upserted' = {}
    /\ readFailed' = FALSE
    /\ sameCatalog' = FALSE
    /\ cleanBefore' = FALSE
    /\ emptyAtStart' = FALSE
    /\ existing' = FALSE
    /\ last' = "killed"
    /\ response' = "none"
    /\ why' = <<>>
    /\ datasets' = <<>>
    /\ UNCHANGED <<rawFiles, processedFiles, store, today, runNo,
                   materialized, verdict>>

\* A raw file is deleted from outside the program, between two runs.
DeleteRaw(id) ==
    /\ pc = "idle"
    /\ id \in rawFiles
    /\ rawFiles' = rawFiles \ {id}
    /\ last' = IF last \in {"clean", "failed"} THEN "deleted" ELSE last
    /\ UNCHANGED <<processedFiles, store, today, pc, runNo, existing,
                   datasets, worklist, pos, fault, upserted, attempts,
                   materialized, readFailed, sameCatalog, cleanBefore,
                   emptyAtStart, verdict, response, why>>

\* Midnight passes between two runs.
Tick ==
    /\ pc = "idle"
    /\ today < MaxDay
    /\ today' = today + 1
    /\ UNCHANGED <<rawFiles, processedFiles, store, pc, runNo, existing,
                   datasets, worklist, pos, fault, upserted, attempts,
                   materialized, readFailed, sameCatalog, cleanBefore,
                   emptyAtStart, last, verdict, response, why>>

WriteOutcomes == {"ok", "partial", "error"}

Next ==
    \/ \E err \in BOOLEAN : RunStart(err)
    \/ \E resp \in Responses(MaxItems) : FetchHospitalDatasets(resp)
    \/ \E errs \in SUBSET (1..Len(datasets)) : FilterDatasets(errs)
    \/ \E i \in Items, readErr \in BOOLEAN : Start(i, readErr)
    \/ \E i \in Items, ok \in BOOLEAN : ReadCsv(i, ok)
    \/ \E i \in Items, out \in WriteOutcomes : WriteRaw(i, out)
    \/ \E i \in Items, out \in WriteOutcomes : WriteProcessed(i, out)
    \/ \E i \in Items, ok \in BOOLEAN : Upsert(i, ok)
    \/ RunReturn
    \/ Sleep
    \/ Kill
    \/ \E id \in Ids : DeleteRaw(id)
    \/ Tick

Spec == Init /\ [][Next]_vars

\* ------------------------------------------------------------ the pool
\* A specification of one run() call on a listing longer than the pool is
\* wide: PoolItems datasets of distinct identifiers, of which any may fail
\* to download.
PoolItems == max_workers + PoolExtra

PoolListing == [i \in 1..PoolItems |-> Dataset(i, Stamp(1), TRUE)]

\* A step of some process_dataset call under way.
WorkerStep ==
    \/ \E i \in Items, ok \in BOOLEAN : ReadCsv(i, ok)
    \/ \E i \in Items : WriteRaw(i, "ok")
    \/ \E i \in Items : WriteProcessed(i, "ok")
    \/ \E i \in Items : Upsert(i, TRUE)

Dispatch == \E i \in Items : Start(i, FALSE)

NextPool ==
    \/ RunStart(FALSE)
    \/ FetchHospitalDatasets([kind |-> "ok", body |-> PoolListing])
    \/ FilterDatasets({})
    \/ Dispatch
    \/ WorkerStep
    \/ RunReturn

\* The threads of the pool are scheduled: a call that can take a step takes
\* one, a queued item is taken by a free worker, and run() goes on once the
\* pool is joined.
PoolSpec ==
    /\ Init
    /\ [][NextPool]_vars
    /\ WF_vars(WorkerStep)
    /\ WF_vars(Dispatch)
    /\ WF_vars(RunReturn)

\* ------------------------------------------------------------ the detector
\* A specification of needs_update on its own: one identifier, its raw file
\* there or not, its row absent or holding any stamp; the calls draw the
\* dataset's stamp and whether the lookup raises.
DetectStamps == {Stamp(n) : n \in 0..MaxStamp}

InitDetect ==
    /\ rawFiles \in SUBSET {1}
    /\ processedFiles = rawFiles
    /\ store \in {{}} \cup {{Row(1, Filename(1), m, Stamp(1))} : m \in DetectStamps}
    /\ today = 1
    /\ pc = "idle"
    /\ runNo = 0
    /\ existing = FALSE
    /\ datasets = <<>>
    /\ worklist = <<>>
    /\ pos = <<>>
    /\ fault = <<>>
    /\ upserted = {}
    /\ attempts = <<>>
    /\ materialized = {r.file_id : r \in store}
    /\ readFailed = FALSE
    /\ sameCatalog = FALSE
    /\ cleanBefore = FALSE
    /\ emptyAtStart = FALSE
    /\ last = "none"
    /\ verdict = <<>>
    /\ response = "none"
    /\ why = <<>>

\* One call needs_update(d).
Detect(d, readErr) ==
    /\ verdict' = <<[dataset |-> d, readErr |-> readErr,
                     result |-> NeedsUpdate(d, readErr)]>>
    /\ UNCHANGED <<rawFiles, processedFiles, store, today, pc, runNo, existing,
                   datasets, worklist, pos, fault, upserted, attempts,
                   materialized, readFailed, sameCatalog, cleanBefore,
                   emptyAtStart, last, response, why>>

NextDetect ==
    \E m \in DetectStamps, readErr \in BOOLEAN :
        Detect(Dataset(1, m, TRUE), readErr)

DetectSpec == InitDetect /\ [][NextDetect]_vars

\* ---- to_snake_case: a name is a sequence of one-character strings ----

MaxNameLen == 4

Uppers == <<"A", "B", "C", "D", "E", "F", "G", "H", "I", "J", "K", "L", "M">> \o
          <<"N", "O", "P", "Q", "R", "S", "T", "U", "V", "W", "X", "Y", "Z">>
Lowers == <<"a", "b", "c", "d", "e", "f", "g", "h", "i", "j", "k", "l", "m">> \o
          <<"n", "o", "p", "q", "r", "s", "t", "u", "v", "w", "x", "y", "z">>
DigitChars == {"0", "1", "2", "3", "4", "5", "6", "7", "8", "9"}

\* The character classes [A-Z], [a-z] and [a-z0-9] of the two patterns.
IsUpper(c) == \E k \in 1..26 : Uppers[k] = c
IsLower(c) == \E k \in 1..26 : Lowers[k] = c
IsLowerOrDigit(c) == IsLower(c) \/ c \in DigitChars

\* str.lower() on one character and on a name.
LowerChar(c) == IF IsUpper(c) THEN Lowers[CHOOSE k \in 1..26 : Uppers[k] = c] ELSE c
Lower(name) == [k \in 1..Len(name) |-> LowerChar(name[k])]

\* '(.)([A-Z][a-z]+)' matches at p: any character but a newline, an upper
\* case letter, at least one lower case letter.
Match1(name, p) ==
    /\ p + 2 <= Len(name)
    /\ name[p] # "\n"
    /\ IsUpper(name[p + 1])
    /\ IsLower(name[p + 2])

\* The greedy [a-z]+ of a match at p ends at End1(name, p).
End1(name, p) ==
    CHOOSE e \in (p + 2)..Len(name) :
        /\ \A j \in (p + 2)..e : IsLower(name[j])
        /\ e = Len(name) \/ ~IsLower(name[e + 1])

\* re.sub of the first pattern by r'\1_\2' from position p on: matches are
\* taken leftmost first and do not overlap.
RECURSIVE Sub1(_, _)
Sub1(name, p) ==
    IF p > Len(name) THEN <<>>
    ELSE IF Match1(name, p)
         THEN <<name[p], "_">> \o SubSeq(name, p + 1, End1(name, p))
                  \o Sub1(name, End1(name, p) + 1)
         ELSE <<name[p]>> \o Sub1(name, p + 1)

\* '([a-z0-9])([A-Z])' matches at p.
Match2(name, p) ==
    /\ p + 1 <= Len(name)
    /\ IsLowerOrDigit(name[p])
    /\ IsUpper(name[p + 1])

\* re.sub of the second pattern by r'\1_\2' from position p on.
RECURSIVE Sub2(_, _)
Sub2(name, p) ==
    IF p > Len(name) THEN <<>>
    ELSE IF Match2(name, p)
         THEN <<name[p], "_", name[p + 1]>> \o Sub2(name, p + 2)
         ELSE <<name[p]>> \o Sub2(name, p + 1)

ToSnakeCaseOneSubMutant(name) == Lower(Sub2(name, 1))

\* to_snake_case(name).
ToSnakeCase(name) == Lower(Sub2(Sub1(name, 1), 1))

\* Column names: every name of at most MaxNameLen characters over a small
\* alphabet of letters, a digit and the two separators, and five names of
\* CMS column headers.
NameChars == {"A", "B", "a", "b", "1", "_", " "}
PatientID == <<"P", "a", "t", "i", "e", "n", "t", "I", "D">>
ZIPCode == <<"Z", "I", "P", "C", "o", "d", "e">>
TotalHCAHPSScore == <<"t", "o", "t", "a", "l", "H", "C", "A", "H", "P", "S", "S", "c", "o", "r", "e">>
FacilitySpaceName == <<"F", "a", "c", "i", "l", "i", "t", "y", " ", "N", "a", "m", "e">>
FacilityUnderscoreName == <<"F", "a", "c", "i", "l", "i", "t", "y", "_", "N", "a", "m", "e">>
Names ==
    UNION {[1..n -> NameChars] : n \in 0..MaxNameLen}
        \cup {PatientID, ZIPCode, TotalHCAHPSScore,
              FacilitySpaceName, FacilityUnderscoreName}

\* One column name of a downloaded table, not yet renamed.
InitSnake ==
    /\ rawFiles = {} /\ processedFiles = {} /\ store = {}
    /\ today = 1 /\ pc = "idle" /\ runNo = 0 /\ existing = FALSE
    /\ datasets = <<>> /\ worklist = <<>> /\ pos = <<>> /\ fault = <<>>
    /\ upserted = {} /\ attempts = <<>> /\ materialized = {}
    /\ readFailed = FALSE /\ sameCatalog = FALSE /\ cleanBefore = FALSE
    /\ emptyAtStart = FALSE /\ last = "none"
    /\ response = "none" /\ why = <<>>
    /\ verdict \in {<<[name |-> n, snake |-> <<>>, done |-> FALSE]>> : n \in Names}

\* Line 62 on that column.
RenameColumn ==
    /\ verdict # <<>>
    /\ ~verdict[1].done
    /\ verdict' = <<[name |-> verdict[1].name,
                     snake |-> ToSnakeCase(verdict[1].name),
                     done |-> TRUE]>>
    /\ UNCHANGED <<rawFiles, processedFiles, store, today, pc, runNo,
                   existing, datasets, worklist, pos, fault, upserted,
                   attempts, materialized, readFailed, sameCatalog,
                   cleanBefore, emptyAtStart, last, response, why>>

NextSnake == RenameColumn

SnakeSpec == InitSnake /\ [][NextSnake]_vars


\* ------------------------------------------------------------ claims
\* The identifiers of a listing are pairwise distinct (the data model's
\* invariant of a catalog).
Distinct(ds) ==
    \A i, j \in 1..Len(ds) : i # j => ds[i].identifier # ds[j].identifier

\* The run has built its work list.
Filtered == pc \in {"dispatching", "returned"}

\* C1 as stated: a run whose listing equals that of the run before it has
\* an empty work list.
C1_AsStated == (Filtered /\ sameCatalog) => worklist = <<>>

\* C1, amended: a run whose listing, of pairwise distinct identifiers,
\* equals that of the run before it has an empty work list and starts no
\* call, provided the run before it returned with every item of its work
\* list done or skipped, no raw file was deleted since, and no store lookup
\* of this run's filter raised.
C1_Idempotent ==
    (Filtered /\ sameCatalog /\ cleanBefore /\ ~readFailed /\ Distinct(datasets))
        => (worklist = <<>> /\ pos = <<>>)

C1_Witness ==
    /\ pc = "returned"
    /\ sameCatalog /\ cleanBefore /\ ~readFailed /\ Distinct(datasets)
    /\ Len(datasets) >= 2
    /\ \A i \in 1..Len(datasets) : HasRecord(datasets[i].identifier)
    /\ worklist = <<>>

\* Exactly one call of the work list failed, and it failed in read_csv.
OneDownloadFailed ==
    /\ Cardinality({i \in Items : fault[i] = "fetch"}) = 1
    /\ \A i \in Items : fault[i] \in {"fetch", "none"}

\* C2: once every call of a work list has ended, of which exactly one
\* failed, in its download, run() does not raise, the failing call wrote no
\* row, and the store holds a row for every other item.
C2_Isolation ==
    (AllTerminal /\ OneDownloadFailed) =>
        /\ pc # "raised"
        /\ \A i \in Items :
              IF fault[i] = "fetch"
              THEN i \notin upserted
              ELSE HasRecord(worklist[i].identifier)

C2_Witness ==
    /\ pc = "returned"
    /\ OneDownloadFailed
    /\ Len(worklist) >= 2
    /\ Distinct(worklist)
    /\ \E i \in Items : i \in upserted
    /\ \E i \in Items : fault[i] = "fetch" /\ ~HasRecord(worklist[i].identifier)

\* C3: a run that starts on an empty store puts every dataset of its
\* listing on the work list; and if the N identifiers are pairwise distinct
\* and every call ends done, the store then holds exactly N rows, one per
\* identifier.
C3_FirstRun ==
    (Filtered /\ emptyAtStart) =>
        /\ worklist = datasets
        /\ (pc = "returned" /\ Distinct(datasets)
               /\ \A i \in Items : pos[i] = "done")
             => /\ Cardinality(store) = Len(datasets)
                /\ \A i \in Items :
                      Cardinality({r \in store :
                          r.file_id = worklist[i].identifier}) = 1

C3_Witness ==
    /\ pc = "returned"
    /\ emptyAtStart
    /\ Distinct(datasets)
    /\ Len(datasets) >= 2
    /\ \A i \in Items : pos[i] = "done"
    /\ Cardinality(store) = Len(datasets)

\* The verdict of a needs_update call for a dataset whose raw file exists
\* and whose row is in the store.
OnRecord(v) ==
    /\ v.dataset.identifier \in rawFiles
    /\ HasRecord(v.dataset.identifier)

\* The dataset's stamp is later than the recorded one.
Later(v) ==
    StampValue(v.dataset.modified)
        > StampValue(FetchOne(v.dataset.identifier)[1])

\* C4 as stated: with the raw file and a row present, needs_update returns
\* true exactly if the dataset's stamp is later than the recorded one.
C4_AsStated ==
    \A k \in 1..Len(verdict) :
        OnRecord(verdict[k]) => (verdict[k].result <=> Later(verdict[k]))

\* C4, amended: with the raw file and a row present and the store lookup
\* not raising, needs_update returns true exactly if the dataset's stamp is
\* later than the recorded one.
C4_Monotonic ==
    \A k \in 1..Len(verdict) :
        (OnRecord(verdict[k]) /\ ~verdict[k].readErr)
            => (verdict[k].result <=> Later(verdict[k]))

C4_Witness ==
    /\ verdict # <<>>
    /\ OnRecord(verdict[1])
    /\ ~verdict[1].readErr
    /\ verdict[1].dataset.modified = FetchOne(verdict[1].dataset.identifier)[1]
    /\ StampValue(verdict[1].dataset.modified) >= 10
    /\ ~verdict[1].result

\* C5: for a dataset whose raw file does not exist needs_update returns
\* true, whatever the store holds and whether or not the lookup would
\* raise; and a call started for such a dataset takes the download path.
C5_MissingArtifact ==
    /\ [](\A d \in Datasets, readErr \in BOOLEAN :
             d.identifier \notin rawFiles => NeedsUpdate(d, readErr))
    /\ [][\A i \in Items :
             (/\ pc' = "dispatching"
              /\ pos[i] = "queued"
              /\ pos'[i] # "queued"
              /\ worklist[i].identifier \notin rawFiles)
                => pos'[i] = "download"]_vars

C5_Witness ==
    \E i \in Items :
        /\ pos[i] = "download"
        /\ worklist[i].identifier \notin rawFiles
        /\ HasRecord(worklist[i].identifier)
        /\ ~StrGreater(worklist[i].modified,
                       FetchOne(worklist[i].identifier)[1])

\* A call that took the download path and has not written its row: it is
\* under way (and would stop here if the process were killed) or has failed.
Unfinished == {"download", "fetched", "raw_written", "processed_written", "failed"}

\* C7 as stated, for the work lists of pairwise distinct identifiers that
\* a filter without lookup errors built: a call that took the download path
\* and stopped before its upsert has written no row, and needs_update of
\* its dataset is true afterwards.
C7_AsStated ==
    \A i \in Items :
        (Distinct(worklist) /\ ~readFailed /\ pos[i] \in Unfinished)
            => (i \notin upserted /\ NeedsUpdate(worklist[i], FALSE))

\* Every identifier the model knows.
KnownIds == Ids \cup materialized \cup {r.file_id : r \in store}

\* C6 as stated: an identifier has a row exactly if both of its files have
\* been written by some call.
C6_AsStated == \A id \in KnownIds : HasRecord(id) <=> id \in materialized

\* C6, amended: an identifier has a row only if both of its files have been
\* written by some call; and a call writes its row only once it has written
\* the raw file and then the processed file.
C6_RecordAfterFiles ==
    /\ [](\A id \in KnownIds : HasRecord(id) => id \in materialized)
    /\ [][\A i \in Items :
             (pc' = "dispatching" /\ i \notin upserted /\ i \in upserted')
                => pos[i] = "processed_written"]_vars

C6_Witness ==
    \E i \in upserted :
        /\ HasRecord(worklist[i].identifier)
        /\ worklist[i].identifier \in materialized
        /\ worklist[i].identifier \in rawFiles \cap processedFiles

\* C8: the store never holds two rows of one identifier; and an upsert
\* leaves the store holding its own row, all four fields, in place of the
\* row of that identifier, and the rows of the other identifiers as they
\* were.
C8_AtomicUpsert ==
    /\ [](\A r1, r2 \in store : r1.file_id = r2.file_id => r1 = r2)
    /\ [][\A i \in Items :
             (pc' = "dispatching" /\ i \notin upserted /\ i \in upserted')
                => store' = {r \in store : r.file_id # worklist[i].identifier}
                               \cup {RowOf(worklist[i])}]_vars

\* Two calls of one run have written rows of the same identifier that
\* differ, and the store holds one row.
C8_Witness ==
    /\ \E i, j \in upserted :
          /\ i # j
          /\ worklist[i].identifier = worklist[j].identifier
          /\ worklist[i].modified # worklist[j].modified
    /\ Cardinality(store) = 1

\* C9: at most 5 process_dataset calls are under way at any time.
C9_BoundedConcurrency == Cardinality(InFlight) <= 5

C9_Witness ==
    /\ Cardinality(InFlight) = 5
    /\ \E i \in Items : pos[i] = "queued"

\* C10: a run that dispatches its work list ends; and when it has returned,
\* every item of the work list was handed to a worker exactly once and its
\* call ended done, skipped or failed.
C10_BatchCompletion ==
    /\ (pc = "dispatching") ~> (pc \in {"returned", "raised"})
    /\ [](pc = "returned" =>
            \A i \in Items :
                attempts[i] = 1 /\ pos[i] \in {"done", "skipped", "failed"})

C10_Witness ==
    /\ pc = "returned"
    /\ Len(worklist) > 5
    /\ \E i \in Items : pos[i] = "failed"
    /\ \E i \in Items : pos[i] = "done"

\* C13: when the raw file exists and the store lookup raises, needs_update
\* returns true.
C13_Conservative ==
    \A k \in 1..Len(verdict) :
        (verdict[k].dataset.identifier \in rawFiles /\ verdict[k].readErr)
            => verdict[k].result

C13_Witness ==
    /\ verdict # <<>>
    /\ OnRecord(verdict[1])
    /\ verdict[1].readErr
    /\ ~Later(verdict[1])
    /\ verdict[1].result

\* Call i writes its row in this step.
Upserts(i) == pc' = "dispatching" /\ i \notin upserted /\ i \in upserted'

\* C16: when a call writes its row, the store then holds for the call's
\* identifier the one row (identifier, identifier + ".csv", the dataset's
\* modified value, the current date), whatever row it held before, and
\* the rows of the other identifiers as they were.
C16_RecordContent ==
    [][\A i \in Items :
          Upserts(i) =>
              /\ {r \in store' : r.file_id = worklist[i].identifier}
                    = {[file_id |-> worklist[i].identifier,
                        filename |-> <<worklist[i].identifier, ".csv">>,
                        last_modified |-> worklist[i].modified,
                        last_processed |-> Stamp(today)]}
              /\ {r \in store' : r.file_id # worklist[i].identifier}
                    = {r \in store : r.file_id # worklist[i].identifier}]_vars

\* A call of the second run has written its row, of the second day, over
\* the only row the store held.
C16_Witness ==
    /\ runNo = 2
    /\ ~emptyAtStart
    /\ Cardinality(store) = 1
    /\ \E i \in upserted :
          Row(worklist[i].identifier, Filename(worklist[i].identifier),
              Stamp(2), Stamp(2)) \in store

\* C17: a step that changes the store, changes the processed files or adds
\* a raw file is a step of a call on the download path (read_csv done, not
\* yet ended); so run()'s check, fetch and filter, and a call that skips,
\* leave them as they are.
C17_SingleWriter ==
    [][(\/ store' # store
        \/ processedFiles' # processedFiles
        \/ ~(rawFiles' \subseteq rawFiles))
          => /\ pc = "dispatching"
             /\ pc' = "dispatching"
             /\ \E i \in Items :
                   /\ pos[i] \in {"fetched", "raw_written", "processed_written"}
                   /\ pos'[i] # pos[i]]_vars

C17_Witness ==
    \E i \in Items :
        /\ pos[i] = "skipped"
        /\ i \notin upserted
        /\ HasRecord(worklist[i].identifier)

\* C18: once every call of a work list of distinct identifiers has ended,
\* the rows (identifier, filename, modified) in the store and the raw and
\* processed files are those of the items whose download did not fail,
\* whatever the order in which the calls ran.
C18_OrderIndependent ==
    (AllTerminal /\ pc \in {"dispatching", "returned"}) =>
        LET ok == {i \in Items : fault[i] = "none"}
        IN  /\ {<<r.file_id, r.filename, r.last_modified>> : r \in store}
                 = {<<worklist[i].identifier, Filename(worklist[i].identifier),
                      worklist[i].modified>> : i \in ok}
            /\ rawFiles = {worklist[i].identifier : i \in ok}
            /\ processedFiles = {worklist[i].identifier : i \in ok}

C18_Witness ==
    /\ pc = "returned"
    /\ Distinct(worklist)
    /\ Cardinality({i \in Items : fault[i] = "fetch"}) >= 2
    /\ Cardinality(store) >= 2
    /\ pos[1] = "failed"
    /\ pos[Len(worklist)] = "done"

\* C19: an identifier that has a row has a row in the next state.
C19_NeverDeleted ==
    [][{r.file_id : r \in store} \subseteq {r.file_id : r \in store'}]_vars

C19_Witness ==
    /\ runNo = 2
    /\ pc = "returned"
    /\ ~emptyAtStart
    /\ \E i \in Items : pos[i] = "failed" /\ HasRecord(worklist[i].identifier)

\* The name is made of letters and digits only.
Alphanumeric(name) ==
    \A k \in 1..Len(name) : IsUpper(name[k]) \/ IsLowerOrDigit(name[k])

\* An underscore belongs before position k of the name: an upper case
\* letter after a lower case letter or digit, or an upper case letter that
\* starts a capitalized word.
WordStart(name, k) ==
    /\ k > 1
    /\ IsUpper(name[k])
    /\ \/ IsLowerOrDigit(name[k - 1])
       \/ k < Len(name) /\ IsLower(name[k + 1])

RECURSIVE Underscored(_, _)
Underscored(name, k) ==
    IF k > Len(name) THEN <<>>
    ELSE (IF WordStart(name, k) THEN <<"_">> ELSE <<>>)
             \o <<LowerChar(name[k])>> \o Underscored(name, k + 1)

\* C14: for a name of letters and digits, to_snake_case returns the lower
\* cased name with one underscore before every upper case letter that
\* follows a lower case letter or digit or that starts a capitalized word,
\* and no other; "PatientID", "ZIPCode" and "totalHCAHPSScore" become
\* "patient_id", "zip_code" and "total_hcahps_score".
C14_CamelAndAcronym ==
    \A k \in 1..Len(verdict) :
        verdict[k].done =>
            /\ Alphanumeric(verdict[k].name)
                  => verdict[k].snake = Underscored(verdict[k].name, 1)
            /\ verdict[k].name = PatientID
                  => verdict[k].snake = <<"p", "a", "t", "i", "e", "n", "t", "_", "i", "d">>
            /\ verdict[k].name = ZIPCode
                  => verdict[k].snake = <<"z", "i", "p", "_", "c", "o", "d", "e">>
            /\ verdict[k].name = TotalHCAHPSScore
                  => verdict[k].snake = <<"t", "o", "t", "a", "l", "_", "h", "c", "a", "h", "p", "s", "_", "s", "c", "o", "r", "e">>

C14_Witness ==
    /\ verdict # <<>>
    /\ verdict[1].done
    /\ verdict[1].name = TotalHCAHPSScore
    /\ verdict[1].snake = <<"t", "o", "t", "a", "l", "_", "h", "c", "a", "h", "p", "s", "_", "s", "c", "o", "r", "e">>

\* The words of the name are already separated: an upper case letter after
\* the first character comes right after a space or an underscore, and
\* every separator stands between two letters or digits.
Separated(name) ==
    /\ \E k \in 1..Len(name) : name[k] \in {" ", "_"}
    /\ \A k \in 1..Len(name) :
          \/ /\ name[k] \in {" ", "_"}
             /\ k > 1 /\ k < Len(name)
             /\ Alphanumeric(<<name[k - 1], name[k + 1]>>)
          \/ /\ IsUpper(name[k])
             /\ k > 1 => name[k - 1] \in {" ", "_"}
          \/ IsLowerOrDigit(name[k])

\* C15: for a name whose words are already separated by spaces or
\* underscores, to_snake_case returns the lower cased name, with no
\* underscore added.
C15_AsStated ==
    \A k \in 1..Len(verdict) :
        (verdict[k].done /\ Separated(verdict[k].name))
            => verdict[k].snake = Lower(verdict[k].name)

\* C11: in a run whose catalog request failed in transport or came back
\* with a status other than 200, fetch_hospital_datasets has returned the
\* empty list, run() does not raise and dispatches nothing, and no step of
\* the run changes the store or the files.
C11_CatalogUnavailable ==
    /\ [](response \in {"bad_status", "transport_error"} =>
             /\ pc \in {"fetched", "returned"}
             /\ datasets = <<>>
             /\ worklist = <<>>
             /\ pos = <<>>
             /\ upserted = {})
    /\ [][response' \in {"bad_status", "transport_error"} =>
             /\ store' = store
             /\ rawFiles' = rawFiles
             /\ processedFiles' = processedFiles]_vars

C11_Witness ==
    /\ response = "bad_status"
    /\ pc = "returned"
    /\ store # {}
    /\ rawFiles # {}

\* C12: when needs_update raises while the work list is built, run() ends
\* by raising, with no work list, no call started and no row written, and
\* the store as it was.
C12_FilterRaises ==
    /\ [](pc = "raised" => worklist = <<>> /\ pos = <<>> /\ upserted = {})
    /\ [][(pc = "fetched" /\ pc' \notin {"fetched", "idle"} /\ FilterRaises(datasets))
             => /\ pc' = "raised"
                /\ store' = store
                /\ rawFiles' = rawFiles
                /\ processedFiles' = processedFiles]_vars

C12_Witness ==
    /\ pc = "raised"
    /\ runNo = 2
    /\ Len(datasets) = 2
    /\ datasets[1].identifier # NoIdentifier
    /\ HasRecord(datasets[1].identifier)
    /\ StrGreater(datasets[1].modified, FetchOne(datasets[1].identifier)[1])

\* C20 as stated: every row a call writes has a last_modified that is not
\* less than the last_modified of the row it replaces.
C20_AsStated ==
    [][\A i \in Items :
          Upserts(i) =>
              \A r \in store :
                  r.file_id = worklist[i].identifier
                      => ~StrGreater(r.last_modified, worklist[i].modified)]_vars

\* C20: in a run whose work list has pairwise distinct identifiers, a call
\* that took the download path because the comparison with the stored
\* last_modified said so writes a row whose last_modified is not less than
\* that of the row it replaces.
C20_Monotonic ==
    [][\A i \in Items :
          (Upserts(i) /\ Distinct(worklist) /\ why[i] = "compared") =>
              \A r \in store :
                  r.file_id = worklist[i].identifier
                      => ~StrGreater(r.last_modified, worklist[i].modified)]_vars

C20_Witness ==
    /\ runNo = 2
    /\ Distinct(worklist)
    /\ \E i \in Items :
          /\ pos[i] = "processed_written"
          /\ why[i] = "compared"
          /\ HasRecord(worklist[i].identifier)
          /\ StrGreater(worklist[i].modified, FetchOne(worklist[i].identifier)[1])

====
